---- MODULE Spec2Model ----
(***************************************************************************)
(* Model of dfmodules' DataWriter (plugins/DataWriter.cpp): the command    *)
(* handlers do_conf / do_start / do_stop / do_scrap, the monitoring poll   *)
(* get_info, and the worker thread do_work with receive_trigger_record     *)
(* split at every access to state another thread can see (the atomics      *)
(* m_running, the WorkerThread flag and the counters) and at every         *)
(* blocking call (receive, write, usleep, send).                           *)
(***************************************************************************)
EXTENDS Integers, Sequences, FiniteSets, Bags, TLC

\* ------------------------------------------------------------------ bounds
MaxReceived == 3      \* records received by the worker in one run
MaxRuns == 1          \* do_start commands issued
MaxRetries == 1       \* retryable write failures of one record
MaxSendFails == 1     \* failed send attempts of one token
MaxReceivedBackoff == 2   \* MaxReceived, under SpecBackoff
MaxRetriesBackoff == 3    \* MaxRetries, under SpecBackoff
MaxPolls == 1         \* get_info polls in one run
MaxReceivedLive == 2  \* MaxReceived, under SpecLive
MaxReceivedPoll == 2  \* MaxReceived, under SpecPoll
MaxRunsRestart == 2   \* MaxRuns, under SpecRestart
MaxReceivedRestart == 2 \* MaxReceived, under SpecRestart
MaxWritingMs == 1     \* elapsed milliseconds accumulated in m_writing_ms

\* ------------------------------------------------------------ input spaces
NumEvents == 2          \* events 1..NumEvents, event e of e records
Events == 1..NumEvents
\* event e consists of the parts 0..MaxSeqOf(e): event 1 is single-part
MaxSeqOf(e) == e - 1
RunNumbers == {7, 8}
SizeOf(seq) == seq + 1

Part(r, e, s) ==
  [run_number |-> r, trigger_number |-> e, sequence_number |-> s,
   max_sequence_number |-> MaxSeqOf(e), size |-> SizeOf(s)]
Parts == {Part(r, e, s) : r \in RunNumbers, e \in Events, s \in 0..(NumEvents - 1)}
PartsOf(runs, evs) ==
  {p \in Parts : /\ p.run_number \in runs
                 /\ p.trigger_number \in evs
                 /\ p.sequence_number <= p.max_sequence_number}
NoPart == [run_number |-> 0, trigger_number |-> 0, sequence_number |-> 0,
           max_sequence_number |-> 0, size |-> 0]

\* configurations handed to do_conf: [prescale, min, max, factor]
Conf(n, lo, hi, f) ==
  [data_storage_prescale |-> n, min_write_retry_time_usec |-> lo,
   max_write_retry_time_usec |-> hi, write_retry_time_increase_factor |-> f]
ConfParams == {Conf(n, 1, 3, 2) : n \in {1, 2, 3}}
BackoffConfParams ==
  {Conf(1, lo, hi, f) : lo \in {0, 1, 2}, hi \in {0, 1, 3, 5}, f \in {0, 1, 2, 3}}

Min(a, b) == IF a <= b THEN a ELSE b

\* ------------------------------------------------------------------- state
VARIABLES
  state,            \* command state machine: "initial", "configured", "running"
  ctl,              \* progress of do_stop: "idle", "flag_cleared", "joining",
                    \* "finishing"
  m_data_storage_prescale,
  m_min_write_retry_time_usec,
  m_max_write_retry_time_usec,
  m_write_retry_time_increase_factor,
  m_data_writer,    \* TRUE iff the DataStore instance exists
  m_data_storage_is_enabled,
  m_run_number,
  m_running,        \* DataWriter::m_running
  thread_running,   \* the WorkerThread flag handed to do_work
  m_seqno_counts,   \* std::map trigger number -> count
  m_records_received, m_records_received_tot,
  m_records_written, m_records_written_tot,
  m_bytes_output, m_bytes_output_tot,
  m_writing_ms,
  pc,               \* position of the worker thread
  tr,               \* the TriggerRecord being processed
  should_retry, retry_wait_usec,
  send_trigger_complete_message, wasSentSuccessfully,
  gi,               \* position of a get_info call (0 = none in progress)
  dwi,              \* datawriterinfo::Info being filled by get_info
  storage,          \* bag of records the DataStore wrote since prepare_for_run
  sink,             \* bag of tokens the token sender delivered since conf/start
  \* history variables (observations, never read by the handlers)
  sleeps,           \* usleep arguments of the record being processed
  write_calls,      \* write() invocations for the record being processed
  send_calls,       \* send() invocations for the token being sent
  outcome,          \* last write() outcome of the latest record
  tracked,          \* the latest record went through the sequence counting
  ordinal,          \* records received in this run
  matched,          \* records of this run that passed the run number check
  verdicts,         \* per event: the tracker's verdicts in this run, in order
  seqs,             \* per event: sequence numbers of those records
  polled,           \* sums of the since-last-poll values reported in this run
  nruns, npolls,
  finished          \* what finish_with_run did since do_start: "no", "ok", "failed"

cfgvars == <<m_data_storage_prescale, m_min_write_retry_time_usec,
             m_max_write_retry_time_usec, m_write_retry_time_increase_factor,
             m_data_writer>>
runvars == <<m_data_storage_is_enabled, m_run_number>>
rcvvars == <<m_records_received, m_records_received_tot>>
wrtvars == <<m_records_written, m_records_written_tot,
             m_bytes_output, m_bytes_output_tot>>
locvars == <<should_retry, retry_wait_usec,
             send_trigger_complete_message, wasSentSuccessfully>>
polvars == <<gi, dwi, polled, npolls>>
histvars == <<sleeps, write_calls, send_calls, outcome, tracked,
              ordinal, matched, verdicts, seqs>>
vars == <<state, ctl, cfgvars, runvars, m_running, thread_running,
          m_seqno_counts, rcvvars, wrtvars, m_writing_ms, pc, tr, locvars,
          storage, sink, polvars, histvars, nruns, finished>>

NoInfo == [records_received |-> 0, new_records_received |-> 0,
           records_written |-> 0, new_records_written |-> 0,
           bytes_output |-> 0, new_bytes_output |-> 0, writing_time |-> 0]
NoPolled == [received |-> 0, written |-> 0, bytes |-> 0]
EmptyMap == [e \in {} |-> 0]

\* the object after DataWriter::DataWriter and init()
Init ==
  /\ state = "initial" /\ ctl = "idle"
  /\ m_data_storage_prescale = 1
  /\ m_min_write_retry_time_usec = 1
  /\ m_max_write_retry_time_usec = 1
  /\ m_write_retry_time_increase_factor = 1
  /\ m_data_writer = FALSE
  /\ m_data_storage_is_enabled = TRUE
  /\ m_run_number = 0
  /\ m_running = FALSE /\ thread_running = FALSE
  /\ m_seqno_counts = EmptyMap
  /\ m_records_received = 0 /\ m_records_received_tot = 0
  /\ m_records_written = 0 /\ m_records_written_tot = 0
  /\ m_bytes_output = 0 /\ m_bytes_output_tot = 0
  /\ m_writing_ms = 0
  /\ pc = "idle" /\ tr = NoPart
  /\ should_retry = FALSE /\ retry_wait_usec = 0
  /\ send_trigger_complete_message = FALSE /\ wasSentSuccessfully = FALSE
  /\ gi = 0 /\ dwi = NoInfo
  /\ storage = EmptyBag /\ sink = EmptyBag
  /\ sleeps = <<>> /\ write_calls = 0 /\ send_calls = 0
  /\ outcome = "none" /\ tracked = FALSE
  /\ ordinal = 0 /\ matched = 0
  /\ verdicts = [e \in Events |-> <<>>] /\ seqs = [e \in Events |-> {}]
  /\ polled = NoPolled /\ nruns = 0 /\ npolls = 0
  /\ finished = "no"

\* ------------------------------------------------------- command handlers
PresenceAttempts == 5
Token(r, e) == [run_number |-> r, trigger_number |-> e]
\* what the sink saw: the token, and how many records of its event the
\* tracker had counted when it was sent (0 for the presence token)
Delivered(r, e, n) == SetToBag({[token |-> Token(r, e), nth |-> n]})

\* lines 93-103: the configuration is copied, the minimum clamped
ClampMin(lo) == IF lo < 1 THEN 1 ELSE lo

worker_idle == pc = "idle" /\ ctl = "idle"

\* do_conf when make_data_store throws or returns nullptr (lines 106-115)
do_conf_fail_in(S) ==
  /\ state = "initial" /\ worker_idle
  /\ \E c \in S :
       /\ m_data_storage_prescale' = c.data_storage_prescale
       /\ m_min_write_retry_time_usec' = ClampMin(c.min_write_retry_time_usec)
       /\ m_max_write_retry_time_usec' = c.max_write_retry_time_usec
       /\ m_write_retry_time_increase_factor' = c.write_retry_time_increase_factor
  /\ m_data_writer' = FALSE
  /\ UNCHANGED <<state, ctl, runvars, m_running, thread_running, m_seqno_counts,
                 rcvvars, wrtvars, m_writing_ms, pc, tr, locvars, storage, sink,
                 polvars, histvars, nruns, finished>>

\* do_conf with a DataStore: the presence token is tried PresenceAttempts
\* times (lines 123-134); the handler returns either way
do_conf_in(S) ==
  /\ state = "initial" /\ worker_idle
  /\ \E c \in S :
       /\ m_data_storage_prescale' = c.data_storage_prescale
       /\ m_min_write_retry_time_usec' = ClampMin(c.min_write_retry_time_usec)
       /\ m_max_write_retry_time_usec' = c.max_write_retry_time_usec
       /\ m_write_retry_time_increase_factor' = c.write_retry_time_increase_factor
  /\ m_data_writer' = TRUE
  /\ \E failures \in 0..PresenceAttempts :
       sink' = IF failures < PresenceAttempts THEN Delivered(0, 0, 0) ELSE EmptyBag
  /\ state' = "configured"
  /\ UNCHANGED <<ctl, runvars, m_running, thread_running, m_seqno_counts,
                 rcvvars, wrtvars, m_writing_ms, pc, tr, locvars, storage,
                 polvars, histvars, nruns, finished>>

do_conf == do_conf_in(ConfParams)
do_conf_fail == do_conf_fail_in(ConfParams)
do_conf_backoff == do_conf_in(BackoffConfParams)

\* do_start when prepare_for_run throws (lines 143-165)
do_start_fail_in_Clears(runs, limit) ==
  /\ state = "configured" /\ worker_idle /\ nruns < limit
  /\ m_data_storage_is_enabled' = TRUE
  /\ \E r \in runs : m_run_number' = r
  /\ m_seqno_counts' = EmptyMap
  /\ UNCHANGED <<state, ctl, cfgvars, m_running, thread_running,
                 rcvvars, wrtvars, m_writing_ms, pc, tr, locvars, storage, sink,
                 polvars, histvars, nruns, finished>>
do_start_fail_in(runs, limit) ==
  /\ state = "configured" /\ worker_idle /\ nruns < limit
  /\ m_data_storage_is_enabled' = TRUE
  /\ \E r \in runs : m_run_number' = r
  /\ UNCHANGED <<state, ctl, cfgvars, m_running, thread_running, m_seqno_counts,
                 rcvvars, wrtvars, m_writing_ms, pc, tr, locvars, storage, sink,
                 polvars, histvars, nruns, finished>>

do_start_fail == do_start_fail_in({7}, MaxRuns)

\* do_start (lines 143-179)
do_start_in(runs, disable, limit) ==
  /\ state = "configured" /\ worker_idle /\ nruns < limit
  /\ \E d \in disable : m_data_storage_is_enabled' = ~d
  /\ \E r \in runs : m_run_number' = r
  /\ m_seqno_counts' = EmptyMap
  /\ m_records_received' = 0 /\ m_records_received_tot' = 0
  /\ m_records_written' = 0 /\ m_records_written_tot' = 0
  /\ m_bytes_output' = 0 /\ m_bytes_output_tot' = 0
  /\ m_running' = TRUE
  /\ thread_running' = TRUE /\ pc' = "while"
  /\ state' = "running"
  /\ storage' = EmptyBag /\ sink' = EmptyBag
  /\ sleeps' = <<>> /\ write_calls' = 0 /\ send_calls' = 0
  /\ outcome' = "none" /\ tracked' = FALSE
  /\ ordinal' = 0 /\ matched' = 0
  /\ verdicts' = [e \in Events |-> <<>>] /\ seqs' = [e \in Events |-> {}]
  /\ polled' = NoPolled /\ npolls' = 0 /\ nruns' = nruns + 1
  /\ finished' = "no"
  /\ UNCHANGED <<ctl, cfgvars, m_writing_ms, tr, locvars, gi, dwi>>

do_start == do_start_in({7}, BOOLEAN, MaxRuns)
do_start_backoff == do_start_in({7}, {FALSE}, MaxRuns)

\* do_stop, line 192
do_stop_flag ==
  /\ state = "running" /\ ctl = "idle"
  /\ m_running' = FALSE
  /\ ctl' = "flag_cleared"
  /\ UNCHANGED <<state, cfgvars, runvars, thread_running, m_seqno_counts,
                 rcvvars, wrtvars, m_writing_ms, pc, tr, locvars, storage, sink,
                 polvars, histvars, nruns, finished>>

\* do_stop, line 193: stop_working_thread clears the thread's flag ...
do_stop_thread ==
  /\ ctl = "flag_cleared"
  /\ thread_running' = FALSE
  /\ ctl' = "joining"
  /\ UNCHANGED <<state, cfgvars, runvars, m_running, m_seqno_counts,
                 rcvvars, wrtvars, m_writing_ms, pc, tr, locvars, storage, sink,
                 polvars, histvars, nruns, finished>>

\* ... and joins it
do_stop_join_NoWait ==
  /\ ctl = "joining"
  /\ ctl' = "finishing"
  /\ UNCHANGED <<state, cfgvars, runvars, m_running, thread_running,
                 m_seqno_counts, rcvvars, wrtvars, m_writing_ms, pc, tr, locvars,
                 storage, sink, polvars, histvars, nruns, finished>>
do_stop_join ==
  /\ ctl = "joining" /\ pc = "exited"
  /\ pc' = "idle" /\ ctl' = "finishing"
  /\ UNCHANGED <<state, cfgvars, runvars, m_running, thread_running,
                 m_seqno_counts, rcvvars, wrtvars, m_writing_ms, tr, locvars,
                 storage, sink, polvars, histvars, nruns, finished>>

\* do_stop, lines 199-208: finish_with_run when storage is enabled; an
\* exception it throws is reported with ers::error and do_stop returns
do_stop_finish ==
  /\ ctl = "finishing"
  /\ IF m_data_storage_is_enabled
       THEN \E result \in {"ok", "failed"} : finished' = result
       ELSE UNCHANGED finished
  /\ ctl' = "idle"
  /\ state' = "configured"
  /\ UNCHANGED <<cfgvars, runvars, m_running, thread_running, m_seqno_counts,
                 rcvvars, wrtvars, m_writing_ms, pc, tr, locvars, storage, sink,
                 polvars, histvars, nruns>>

\* do_scrap (line 217)
do_scrap ==
  /\ state = "configured" /\ worker_idle
  /\ m_data_writer' = FALSE
  /\ state' = "initial"
  /\ UNCHANGED <<ctl, m_data_storage_prescale, m_min_write_retry_time_usec,
                 m_max_write_retry_time_usec, m_write_retry_time_increase_factor,
                 runvars, m_running, thread_running, m_seqno_counts,
                 rcvvars, wrtvars, m_writing_ms, pc, tr, locvars, storage, sink,
                 polvars, histvars, nruns, finished>>

\* ---------------------------------------------------------------- get_info
\* one step per atomic operation of lines 78-84, then ci.add (line 86)
gi_frame == <<state, ctl, cfgvars, runvars, m_running, thread_running,
              m_seqno_counts, pc, tr, locvars, storage, sink, histvars, nruns, finished>>

get_info_received_tot ==
  /\ gi = 0 /\ npolls < MaxPolls
  /\ dwi' = [NoInfo EXCEPT !.records_received = m_records_received_tot]
  /\ gi' = 1 /\ npolls' = npolls + 1
  /\ UNCHANGED <<gi_frame, rcvvars, wrtvars, m_writing_ms, polled>>

get_info_received_ResetsTot ==
  /\ gi = 1
  /\ dwi' = [dwi EXCEPT !.new_records_received = m_records_received]
  /\ m_records_received' = 0 /\ m_records_received_tot' = 0
  /\ gi' = 2
  /\ UNCHANGED <<gi_frame, wrtvars, m_writing_ms, polled, npolls>>
get_info_received ==
  /\ gi = 1
  /\ dwi' = [dwi EXCEPT !.new_records_received = m_records_received]
  /\ m_records_received' = 0
  /\ gi' = 2
  /\ UNCHANGED <<gi_frame, m_records_received_tot, wrtvars, m_writing_ms,
                 polled, npolls>>

get_info_written_tot ==
  /\ gi = 2
  /\ dwi' = [dwi EXCEPT !.records_written = m_records_written_tot]
  /\ gi' = 3
  /\ UNCHANGED <<gi_frame, rcvvars, wrtvars, m_writing_ms, polled, npolls>>

get_info_written ==
  /\ gi = 3
  /\ dwi' = [dwi EXCEPT !.new_records_written = m_records_written]
  /\ m_records_written' = 0
  /\ gi' = 4
  /\ UNCHANGED <<gi_frame, rcvvars, m_records_written_tot, m_bytes_output,
                 m_bytes_output_tot, m_writing_ms, polled, npolls>>

get_info_bytes_tot ==
  /\ gi = 4
  /\ dwi' = [dwi EXCEPT !.bytes_output = m_bytes_output_tot]
  /\ gi' = 5
  /\ UNCHANGED <<gi_frame, rcvvars, wrtvars, m_writing_ms, polled, npolls>>

get_info_bytes ==
  /\ gi = 5
  /\ dwi' = [dwi EXCEPT !.new_bytes_output = m_bytes_output]
  /\ m_bytes_output' = 0
  /\ gi' = 6
  /\ UNCHANGED <<gi_frame, rcvvars, m_records_written, m_records_written_tot,
                 m_bytes_output_tot, m_writing_ms, polled, npolls>>

get_info_writing_time ==
  /\ gi = 6
  /\ dwi' = [dwi EXCEPT !.writing_time = m_writing_ms]
  /\ m_writing_ms' = 0
  /\ gi' = 7
  /\ UNCHANGED <<gi_frame, rcvvars, wrtvars, polled, npolls>>

get_info_add ==
  /\ gi = 7
  /\ polled' = [received |-> polled.received + dwi.new_records_received,
                written |-> polled.written + dwi.new_records_written,
                bytes |-> polled.bytes + dwi.new_bytes_output]
  /\ gi' = 0 /\ dwi' = NoInfo
  /\ UNCHANGED <<gi_frame, rcvvars, wrtvars, m_writing_ms, npolls>>

\* ----------------------------------------------------------- worker thread
\* do_work, line 339
do_work_while_Forever ==
  /\ pc = "while"
  /\ pc' = "receive"
  /\ UNCHANGED <<state, ctl, cfgvars, runvars, m_running, thread_running,
                 m_seqno_counts, rcvvars, wrtvars, m_writing_ms, tr, locvars,
                 storage, sink, polvars, histvars, nruns, finished>>
do_work_while ==
  /\ pc = "while"
  /\ pc' = IF thread_running THEN "receive" ELSE "exited"
  /\ UNCHANGED <<state, ctl, cfgvars, runvars, m_running, thread_running,
                 m_seqno_counts, rcvvars, wrtvars, m_writing_ms, tr, locvars,
                 storage, sink, polvars, histvars, nruns, finished>>

\* do_work, lines 341-348: the receive times out (or reports an Issue)
do_work_timeout ==
  /\ pc = "receive"
  /\ pc' = "while"
  /\ UNCHANGED <<state, ctl, cfgvars, runvars, m_running, thread_running,
                 m_seqno_counts, rcvvars, wrtvars, m_writing_ms, tr, locvars,
                 storage, sink, polvars, histvars, nruns, finished>>

\* do_work, lines 341-342: a record arrives and receive_trigger_record starts
do_work_receive_in(P, limit) ==
  /\ pc = "receive" /\ ordinal < limit
  /\ \E p \in P : tr' = p
  /\ pc' = "received"
  /\ ordinal' = ordinal + 1
  /\ sleeps' = <<>> /\ write_calls' = 0 /\ send_calls' = 0
  /\ outcome' = "none" /\ tracked' = FALSE
  /\ UNCHANGED <<state, ctl, cfgvars, runvars, m_running, thread_running,
                 m_seqno_counts, rcvvars, wrtvars, m_writing_ms, locvars,
                 storage, sink, polvars, matched, verdicts, seqs, nruns, finished>>

do_work_receive ==
  do_work_receive_in(PartsOf({7}, Events) \cup PartsOf({8}, {1}), MaxReceived)
do_work_receive_backoff == do_work_receive_in(PartsOf({7}, {2}), MaxReceivedBackoff)

\* receive_trigger_record, line 227
rtr_received ==
  /\ pc = "received"
  /\ m_records_received' = m_records_received + 1
  /\ pc' = "received_tot"
  /\ UNCHANGED <<state, ctl, cfgvars, runvars, m_running, thread_running,
                 m_seqno_counts, m_records_received_tot, wrtvars, m_writing_ms,
                 tr, locvars, storage, sink, polvars, histvars, nruns, finished>>

\* line 228
rtr_received_tot ==
  /\ pc = "received_tot"
  /\ m_records_received_tot' = m_records_received_tot + 1
  /\ pc' = "check_run"
  /\ UNCHANGED <<state, ctl, cfgvars, runvars, m_running, thread_running,
                 m_seqno_counts, m_records_received, wrtvars, m_writing_ms,
                 tr, locvars, storage, sink, polvars, histvars, nruns, finished>>

\* the locals of receive_trigger_record and the record go out of scope
Return ==
  /\ pc' = "while" /\ tr' = NoPart
  /\ should_retry' = FALSE /\ retry_wait_usec' = 0
  /\ send_trigger_complete_message' = FALSE /\ wasSentSuccessfully' = FALSE
  /\ sleeps' = <<>> /\ write_calls' = 0 /\ send_calls' = 0

\* line 235
InvalidRunNumber_Never(record_run, run) == FALSE
InvalidRunNumber(record_run, run) == record_run # run

\* lines 235-240
rtr_check_run ==
  /\ pc = "check_run"
  /\ IF InvalidRunNumber(tr.run_number, m_run_number)
       THEN /\ Return
            /\ UNCHANGED matched
       ELSE /\ pc' = "prescale"
            /\ matched' = matched + 1
            /\ UNCHANGED <<tr, locvars, sleeps, write_calls, send_calls>>
  /\ UNCHANGED <<state, ctl, cfgvars, runvars, m_running, thread_running,
                 m_seqno_counts, rcvvars, wrtvars, m_writing_ms,
                 storage, sink, polvars, outcome, tracked, ordinal,
                 verdicts, seqs, nruns, finished>>

\* line 246: the prescale condition
Selected_Zero(prescale, received_tot) ==
  prescale <= 1 \/ (received_tot % prescale) = 0
Selected(prescale, received_tot) ==
  prescale <= 1 \/ (received_tot % prescale) = 1

\* lines 246-253
rtr_prescale ==
  /\ pc = "prescale"
  /\ IF Selected(m_data_storage_prescale, m_records_received_tot)
        /\ m_data_storage_is_enabled
       THEN /\ should_retry' = TRUE
            /\ retry_wait_usec' = m_min_write_retry_time_usec
            /\ pc' = "write"
       ELSE /\ pc' = "tracker"
            /\ UNCHANGED <<should_retry, retry_wait_usec>>
  /\ UNCHANGED <<state, ctl, cfgvars, runvars, m_running, thread_running,
                 m_seqno_counts, rcvvars, wrtvars, m_writing_ms, tr,
                 send_trigger_complete_message, wasSentSuccessfully,
                 storage, sink, polvars, histvars, nruns, finished>>

write_frame == <<state, ctl, cfgvars, runvars, m_running, thread_running,
                 m_seqno_counts, rcvvars, wrtvars, m_writing_ms, tr,
                 retry_wait_usec, send_trigger_complete_message,
                 wasSentSuccessfully, sink, polvars, sleeps, send_calls,
                 tracked, ordinal, matched, verdicts, seqs, nruns, finished>>

\* lines 255-257: write succeeds
rtr_write_ok ==
  /\ pc = "write"
  /\ should_retry' = FALSE
  /\ storage' = storage (+) SetToBag({tr})
  /\ write_calls' = write_calls + 1 /\ outcome' = "ok"
  /\ pc' = "written"
  /\ UNCHANGED write_frame

\* lines 255-257, 262-269: write raises RetryableDataStoreProblem
rtr_write_retryable_in(limit) ==
  /\ pc = "write" /\ Len(sleeps) < limit
  /\ should_retry' = TRUE
  /\ write_calls' = write_calls + 1 /\ outcome' = "retryable"
  /\ pc' = "backoff"
  /\ UNCHANGED <<write_frame, storage>>

rtr_write_retryable == rtr_write_retryable_in(MaxRetries)
rtr_write_retryable_backoff == rtr_write_retryable_in(MaxRetriesBackoff)

\* lines 255-257, 275-282: write raises any other std::exception
rtr_write_fatal_Retried ==
  /\ pc = "write"
  /\ should_retry' = TRUE
  /\ write_calls' = write_calls + 1 /\ outcome' = "fatal"
  /\ pc' = "retry_check"
  /\ UNCHANGED <<write_frame, storage>>
rtr_write_fatal ==
  /\ pc = "write"
  /\ should_retry' = FALSE
  /\ write_calls' = write_calls + 1 /\ outcome' = "fatal"
  /\ pc' = "retry_check"
  /\ UNCHANGED <<write_frame, storage>>

count_frame == <<state, ctl, cfgvars, runvars, m_running, thread_running,
                 m_seqno_counts, rcvvars, m_writing_ms, tr, locvars,
                 storage, sink, polvars, histvars, nruns, finished>>

\* line 258
rtr_written ==
  /\ pc = "written"
  /\ m_records_written' = m_records_written + 1
  /\ pc' = "written_tot"
  /\ UNCHANGED <<count_frame, m_records_written_tot, m_bytes_output,
                 m_bytes_output_tot>>

\* line 259
rtr_written_tot ==
  /\ pc = "written_tot"
  /\ m_records_written_tot' = m_records_written_tot + 1
  /\ pc' = "bytes"
  /\ UNCHANGED <<count_frame, m_records_written, m_bytes_output,
                 m_bytes_output_tot>>

\* line 260
rtr_bytes ==
  /\ pc = "bytes"
  /\ m_bytes_output' = m_bytes_output + tr.size
  /\ pc' = "bytes_tot"
  /\ UNCHANGED <<count_frame, m_records_written, m_records_written_tot,
                 m_bytes_output_tot>>

\* line 261
rtr_bytes_tot ==
  /\ pc = "bytes_tot"
  /\ m_bytes_output_tot' = m_bytes_output_tot + tr.size
  /\ pc' = "retry_check"
  /\ UNCHANGED <<count_frame, m_records_written, m_records_written_tot,
                 m_bytes_output>>

\* lines 270-272: the delay handed to usleep
Capped_Not(wait, max) == wait
Capped(wait, max) == IF wait > max THEN max ELSE wait

\* lines 270-273: the delay is capped and the thread goes to sleep
rtr_backoff ==
  /\ pc = "backoff"
  /\ retry_wait_usec' = Capped(retry_wait_usec, m_max_write_retry_time_usec)
  /\ sleeps' = Append(sleeps, retry_wait_usec')
  /\ pc' = "usleep"
  /\ UNCHANGED <<state, ctl, cfgvars, runvars, m_running, thread_running,
                 m_seqno_counts, rcvvars, wrtvars, m_writing_ms, tr,
                 should_retry, send_trigger_complete_message,
                 wasSentSuccessfully, storage, sink, polvars, write_calls,
                 send_calls, outcome, tracked, ordinal, matched, verdicts,
                 seqs, nruns, finished>>

\* line 274: the next delay
Grown_Added(wait, factor) == wait + factor
Grown(wait, factor) == wait * factor

\* lines 273-274: usleep returns
rtr_usleep ==
  /\ pc = "usleep"
  /\ retry_wait_usec' = Grown(retry_wait_usec, m_write_retry_time_increase_factor)
  /\ pc' = "retry_check"
  /\ UNCHANGED <<state, ctl, cfgvars, runvars, m_running, thread_running,
                 m_seqno_counts, rcvvars, wrtvars, m_writing_ms, tr,
                 should_retry, send_trigger_complete_message,
                 wasSentSuccessfully, storage, sink, polvars, histvars, nruns, finished>>

\* line 283: the condition of the do-while
RetryAgain_Unstoppable(retry, running) == retry
RetryAgain(retry, running) == retry /\ running

\* line 283
rtr_retry_check ==
  /\ pc = "retry_check"
  /\ pc' = IF RetryAgain(should_retry, m_running) THEN "write" ELSE "timing"
  /\ UNCHANGED <<state, ctl, cfgvars, runvars, m_running, thread_running,
                 m_seqno_counts, rcvvars, wrtvars, m_writing_ms, tr, locvars,
                 storage, sink, polvars, histvars, nruns, finished>>

\* lines 285-287: the elapsed milliseconds are added to m_writing_ms
rtr_timing_in(limit) ==
  /\ pc = "timing"
  /\ \E ms \in 0..1 :
       /\ m_writing_ms + ms <= limit
       /\ m_writing_ms' = m_writing_ms + ms
  /\ pc' = "tracker"
  /\ UNCHANGED <<state, ctl, cfgvars, runvars, m_running, thread_running,
                 m_seqno_counts, rcvvars, wrtvars, tr, locvars,
                 storage, sink, polvars, histvars, nruns, finished>>

\* lines 285-287 when the write loop took less than a millisecond
rtr_timing_fast == rtr_timing_in(0)
rtr_timing == rtr_timing_in(MaxWritingMs)

\* lines 292-310: the sequence counting of one record
Counted_FromZero(counts, trigno) ==
  IF trigno \in DOMAIN counts THEN counts[trigno] + 1 ELSE 0
Counted(counts, trigno) ==
  IF trigno \in DOMAIN counts THEN counts[trigno] + 1 ELSE 1
IsComplete_GE(count, max_sequence_number) == count >= max_sequence_number
IsComplete(count, max_sequence_number) == count > max_sequence_number
observe(counts, part) ==
  IF part.max_sequence_number > 0
    THEN LET trigno == part.trigger_number
             n == Counted(counts, trigno)
         IN IF IsComplete(n, part.max_sequence_number)
              THEN [counts |-> [t \in DOMAIN counts \ {trigno} |-> counts[t]],
                    complete |-> TRUE]
              ELSE [counts |-> [t \in DOMAIN counts \cup {trigno} |->
                                  IF t = trigno THEN n ELSE counts[t]],
                    complete |-> FALSE]
    ELSE [counts |-> counts, complete |-> TRUE]

\* lines 291, 308, 311: whether the token is sent
SendComplete_Always(running, complete) == complete
SendComplete(running, complete) == running /\ complete

\* lines 291-318: the flag is read, the record counted, the token built
rtr_tracker ==
  /\ pc = "tracker"
  /\ LET o == observe(m_seqno_counts, tr)
         e == tr.trigger_number
     IN /\ m_seqno_counts' = o.counts
        /\ verdicts' = [verdicts EXCEPT ![e] =
                          Append(@, IF o.complete THEN "Complete" ELSE "Incomplete")]
        /\ seqs' = [seqs EXCEPT ![e] = @ \cup {tr.sequence_number}]
        /\ tracked' = TRUE
        /\ IF SendComplete(m_running, o.complete)
             THEN /\ send_trigger_complete_message' = TRUE
                  /\ wasSentSuccessfully' = FALSE
                  /\ pc' = "send"
                  /\ UNCHANGED <<tr, should_retry, retry_wait_usec,
                                 sleeps, write_calls, send_calls>>
             ELSE Return
  /\ UNCHANGED <<state, ctl, cfgvars, runvars, m_running, thread_running,
                 rcvvars, wrtvars, m_writing_ms, storage, sink, polvars,
                 outcome, ordinal, matched, nruns, finished>>

send_frame == <<state, ctl, cfgvars, runvars, m_running, thread_running,
                m_seqno_counts, rcvvars, wrtvars, m_writing_ms, tr,
                should_retry, retry_wait_usec, send_trigger_complete_message,
                storage, polvars, sleeps, write_calls, outcome, tracked,
                ordinal, matched, verdicts, seqs, nruns, finished>>

\* line 323: send is entered and blocks for up to m_queue_timeout
rtr_send ==
  /\ pc = "send"
  /\ send_calls' = send_calls + 1
  /\ pc' = "sending"
  /\ UNCHANGED <<send_frame, wasSentSuccessfully, sink>>

\* lines 316-317, 323-324: the token is delivered
rtr_send_ok ==
  /\ pc = "sending"
  /\ sink' = sink (+) Delivered(m_run_number, tr.trigger_number,
                                Len(verdicts[tr.trigger_number]))
  /\ wasSentSuccessfully' = TRUE
  /\ pc' = "send_check"
  /\ UNCHANGED <<send_frame, send_calls>>

\* lines 323, 325-329: send raises an Issue
rtr_send_fail_in(limit) ==
  /\ pc = "sending" /\ send_calls <= limit
  /\ pc' = "send_check"
  /\ UNCHANGED <<send_frame, send_calls, wasSentSuccessfully, sink>>

rtr_send_fail == rtr_send_fail_in(MaxSendFails)

\* line 330: the condition of the do-while
SendAgain_Once(sent, running) == FALSE
SendAgain(sent, running) == ~sent /\ running

\* line 330
rtr_send_check ==
  /\ pc = "send_check"
  /\ IF SendAgain(wasSentSuccessfully, m_running)
       THEN /\ pc' = "send"
            /\ UNCHANGED <<tr, locvars, sleeps, write_calls, send_calls>>
       ELSE Return
  /\ UNCHANGED <<state, ctl, cfgvars, runvars, m_running, thread_running,
                 m_seqno_counts, rcvvars, wrtvars, m_writing_ms, storage, sink,
                 polvars, outcome, tracked, ordinal, matched, verdicts, seqs,
                 nruns, finished>>

\* ---------------------------------------------------------- specifications
rtr_steps ==
  \/ rtr_received \/ rtr_received_tot \/ rtr_check_run \/ rtr_prescale
  \/ rtr_write_ok \/ rtr_write_fatal
  \/ rtr_written \/ rtr_written_tot \/ rtr_bytes \/ rtr_bytes_tot
  \/ rtr_backoff \/ rtr_usleep \/ rtr_retry_check \/ rtr_timing_fast
  \/ rtr_tracker \/ rtr_send \/ rtr_send_ok \/ rtr_send_fail \/ rtr_send_check

receive_trigger_record == rtr_steps \/ rtr_write_retryable
receive_trigger_record_backoff == rtr_steps \/ rtr_write_retryable_backoff

get_info ==
  \/ get_info_received_tot \/ get_info_received \/ get_info_written_tot
  \/ get_info_written \/ get_info_bytes_tot \/ get_info_bytes
  \/ get_info_writing_time \/ get_info_add

do_stop == do_stop_flag \/ do_stop_thread \/ do_stop_join \/ do_stop_finish

Next ==
  \/ do_conf \/ do_conf_fail \/ do_start \/ do_start_fail \/ do_stop \/ do_scrap
  \/ do_work_while \/ do_work_timeout \/ do_work_receive
  \/ receive_trigger_record

Spec == Init /\ [][Next]_vars

\* the same program, configured over the backoff parameters and fed the
\* records of one run
NextBackoff ==
  \/ do_conf_backoff \/ do_start_backoff \/ do_stop \/ do_scrap
  \/ do_work_while \/ do_work_timeout \/ do_work_receive_backoff
  \/ receive_trigger_record_backoff

SpecBackoff == Init /\ [][NextBackoff]_vars

\* the worker's steps on a record whose write and token both succeed
rtr_steps_ok ==
  \/ rtr_received \/ rtr_received_tot \/ rtr_check_run \/ rtr_prescale
  \/ rtr_write_ok
  \/ rtr_written \/ rtr_written_tot \/ rtr_bytes \/ rtr_bytes_tot
  \/ rtr_retry_check \/ rtr_timing
  \/ rtr_tracker \/ rtr_send \/ rtr_send_ok \/ rtr_send_check

\* one run of the same program with the monitoring thread polling get_info
do_conf_poll == do_conf_in({Conf(n, 1, 3, 2) : n \in {1, 2}})
do_start_poll == do_start_in({7}, {FALSE}, MaxRuns)
do_work_receive_poll == do_work_receive_in(PartsOf({7}, {2}), MaxReceivedPoll)

NextPoll ==
  \/ do_conf_poll \/ do_start_poll
  \/ get_info
  \/ do_work_while \/ do_work_timeout \/ do_work_receive_poll
  \/ rtr_steps_ok

SpecPoll == Init /\ [][NextPoll]_vars

\* the same program over two runs, where a start may fail
do_conf_restart == do_conf_in({Conf(1, 1, 3, 2)})
do_start_restart == do_start_in({7}, {FALSE}, MaxRunsRestart)
do_start_fail_restart == do_start_fail_in({8}, MaxRunsRestart)
do_work_receive_restart == do_work_receive_in(PartsOf({7}, {1, 2}), MaxReceivedRestart)

NextRestart ==
  \/ do_conf_restart \/ do_start_restart \/ do_start_fail_restart \/ do_stop
  \/ do_work_while \/ do_work_timeout \/ do_work_receive_restart
  \/ rtr_steps_ok

SpecRestart == Init /\ [][NextRestart]_vars

\* the same program under fair scheduling, where once m_running is cleared
\* write may fail retryably and send may fail any number of times
do_conf_live == do_conf_in({Conf(1, 1, 3, 2)})
do_start_live == do_start_in({7}, BOOLEAN, MaxRuns)
do_work_receive_live == do_work_receive_in(PartsOf({7}, {1, 2}), MaxReceivedLive)
rtr_write_retryable_live ==
  rtr_write_retryable_in(IF m_running THEN MaxRetries ELSE Len(sleeps) + 1)
rtr_send_fail_live ==
  rtr_send_fail_in(IF m_running THEN MaxSendFails ELSE send_calls)

do_work ==
  \/ do_work_while \/ do_work_timeout \/ do_work_receive_live
  \/ rtr_received \/ rtr_received_tot \/ rtr_check_run \/ rtr_prescale
  \/ rtr_write_ok \/ rtr_write_retryable_live \/ rtr_write_fatal
  \/ rtr_written \/ rtr_written_tot \/ rtr_bytes \/ rtr_bytes_tot
  \/ rtr_backoff \/ rtr_usleep \/ rtr_retry_check \/ rtr_timing_fast
  \/ rtr_tracker \/ rtr_send \/ rtr_send_ok \/ rtr_send_fail_live
  \/ rtr_send_check

NextLive == do_conf_live \/ do_start_live \/ do_stop \/ do_work

\* the worker thread keeps running; stop_working_thread, once called, proceeds
SpecLive ==
  /\ Init /\ [][NextLive]_vars
  /\ WF_vars(do_work) /\ WF_vars(do_stop_thread) /\ WF_vars(do_stop_join)

TypeOK ==
  /\ state \in {"initial", "configured", "running"}
  /\ pc \in {"idle", "while", "receive", "received", "received_tot",
             "check_run", "prescale", "write", "written", "written_tot",
             "bytes", "bytes_tot", "backoff", "usleep", "retry_check",
             "timing", "tracker", "send", "sending", "send_check", "exited"}
  /\ DOMAIN m_seqno_counts \subseteq Events

\* ------------------------------------------------------------- observations
TokensFor(e) == {t \in BagToSet(sink) : t.token.trigger_number = e}
WrittenOf(e) == {p \in BagToSet(storage) : p.trigger_number = e}
RECURSIVE Copies(_, _)
Copies(S, bag) ==
  IF S = {} THEN 0
  ELSE LET x == CHOOSE y \in S : TRUE
       IN CopiesIn(x, bag) + Copies(S \ {x}, bag)
RECURSIVE Bytes(_, _)
Bytes(S, bag) ==
  IF S = {} THEN 0
  ELSE LET x == CHOOSE y \in S : TRUE
       IN CopiesIn(x, bag) * x.size + Bytes(S \ {x}, bag)
RECURSIVE Tracked(_)
Tracked(E) ==
  IF E = {} THEN 0
  ELSE LET e == CHOOSE y \in E : TRUE
       IN Len(verdicts[e]) + Tracked(E \ {e})
InRecord == pc \in {"received", "received_tot", "check_run", "prescale",
                    "write", "written", "written_tot", "bytes", "bytes_tot",
                    "backoff", "usleep", "retry_check", "timing", "tracker",
                    "send", "sending", "send_check"}
InWriteLoop == pc \in {"write", "written", "written_tot", "bytes", "bytes_tot",
                       "backoff", "usleep", "retry_check"}
AfterWriteLoop == pc \in {"timing", "tracker", "send", "sending", "send_check"}

\* C1: an event of k+1 > 1 records of the active run, counted from an empty
\* table entry: the tracker judges its first k records incomplete and sends
\* no token for them, judges the (k+1)-th complete, and the event then has no
\* entry in m_seqno_counts
C1_CompleteOnLastRecord ==
  \A e \in Events :
    MaxSeqOf(e) > 0 =>
      LET k == MaxSeqOf(e)
          v == verdicts[e]
      IN /\ \A i \in 1..Len(v) :
              /\ i <= k => v[i] = "Incomplete"
              /\ i = k + 1 => v[i] = "Complete"
         /\ Len(v) = k + 1 => e \notin DOMAIN m_seqno_counts
         /\ \A t \in TokensFor(e) : t.nth > k

C1_Witness ==
  /\ verdicts[2] = <<"Incomplete", "Complete">>
  /\ 2 \notin DOMAIN m_seqno_counts
  /\ Len(verdicts[1]) = 1 /\ ordinal = 3
  /\ tr.trigger_number = 2 /\ pc = "send"

\* C2: while m_running stays set, once each of the k+1 records of an event has
\* arrived exactly once and the last one has been processed, the sink holds
\* exactly one token of that event; it was sent during the last record and
\* carries the active run number and the event's trigger number
C2_ExactlyOneToken ==
  \A e \in Events :
    LET k == MaxSeqOf(e)
    IN (/\ m_running
        /\ Len(verdicts[e]) = k + 1 /\ seqs[e] = 0..k
        /\ tr.trigger_number # e)
       => /\ TokensFor(e) = {[token |-> Token(m_run_number, e), nth |-> k + 1]}
          /\ \A t \in TokensFor(e) : CopiesIn(t, sink) = 1

C2_Witness ==
  /\ m_running /\ tr = NoPart
  /\ Len(verdicts[2]) = 2 /\ seqs[2] = {0, 1}
  /\ Len(verdicts[1]) = 1
  /\ TokensFor(2) # {} /\ TokensFor(1) # {}

\* C3: with storage enabled and prescale <= 1, a token of an event is in the
\* sink only if every record of the event counted up to that token was written
C3_TokenOnlyIfPersisted ==
  (m_data_storage_is_enabled /\ m_data_storage_prescale <= 1) =>
    \A e \in Events : \A t \in TokensFor(e) :
      Copies(WrittenOf(e), storage) >= t.nth

\* C4: once m_running is cleared while the write loop sleeps after a
\* retryable failure (or while a send attempt that fails is in progress), the
\* loop ends at its next check: write (send) is not invoked again, nothing is
\* stored (delivered), the written and bytes counters do not grow, and the
\* record leaves the loop unwritten
C4_StopEndsLoops ==
  /\ [][/\ (~m_running /\ should_retry /\ pc \in {"usleep", "retry_check"})
            => /\ pc' \in {"usleep", "retry_check", "timing"}
               /\ write_calls' = write_calls
               /\ storage' = storage
               /\ m_records_written' <= m_records_written
               /\ m_bytes_output' <= m_bytes_output
               /\ m_records_written_tot' = m_records_written_tot
               /\ m_bytes_output_tot' = m_bytes_output_tot
        /\ (~m_running /\ ~wasSentSuccessfully /\ pc = "send_check")
            => /\ pc' \in {"send_check", "while"}
               /\ send_calls' \in {send_calls, 0}
               /\ sink' = sink]_vars
  /\ [](should_retry /\ AfterWriteLoop => ~m_running /\ outcome = "retryable")

C4_Witness ==
  /\ pc = "timing" /\ should_retry /\ ~m_running
  /\ Len(sleeps) = 1 /\ write_calls = 1 /\ outcome = "retryable"

\* C5: a record whose run number is not m_run_number is dropped at the run
\* number check: it is never written, counted by the tracker or answered with
\* a token, and its processing changes only the two received counters
C5_StaleRecordOnlyCounted ==
  /\ [](tr # NoPart /\ tr.run_number # m_run_number
          => pc \in {"received", "received_tot", "check_run"})
  /\ [][(tr.run_number # m_run_number /\ pc # pc'
         /\ pc \in {"received", "received_tot", "check_run"})
        => /\ UNCHANGED <<m_seqno_counts, storage, sink, wrtvars, m_writing_ms,
                          cfgvars, runvars, m_running, thread_running,
                          state, ctl, verdicts, seqs, matched>>
           /\ m_records_received' =
                m_records_received + (IF pc = "received" THEN 1 ELSE 0)
           /\ m_records_received_tot' =
                m_records_received_tot + (IF pc = "received_tot" THEN 1 ELSE 0)
           /\ pc = "check_run" => pc' = "while"]_vars

C5_Witness ==
  /\ pc = "while" /\ thread_running
  /\ ordinal = 2 /\ matched = 1
  /\ m_records_received_tot = 2 /\ Tracked(Events) = 1

\* C6: with storage enabled, the i-th record received in the run (i counted over
\* every received record) is handed to write iff prescale <= 1 or
\* i mod prescale = 1; every record of the active run is counted by the tracker,
\* written or not
C6_PrescaleByReceivedCount ==
  LET N == m_data_storage_prescale
      chosen == m_data_storage_is_enabled /\ (N <= 1 \/ ordinal % N = 1)
  IN /\ InWriteLoop => chosen
     /\ AfterWriteLoop => (write_calls > 0 <=> chosen)
     /\ Tracked(Events) =
          matched - (IF InWriteLoop \/ pc \in {"prescale", "timing", "tracker"}
                       THEN 1 ELSE 0)

C6_Witness ==
  /\ m_data_storage_is_enabled /\ m_data_storage_prescale = 2
  /\ ordinal = 2 /\ matched = 2 /\ write_calls = 0
  /\ pc = "sending" /\ Tracked(Events) = 2

\* C10: after write raises a non-retryable failure for a record, write is not
\* invoked again for it, no usleep follows, nothing is stored and the written
\* and bytes counters do not grow; the record is still counted by the tracker
\* and the worker loop goes back to receiving
C10_FatalIsDropped ==
  /\ [][(outcome = "fatal" /\ outcome' = "fatal")
        => /\ write_calls' \in {write_calls, 0}
           /\ sleeps' \in {sleeps, <<>>}
           /\ pc' \notin {"write", "backoff", "usleep", "written", "exited"}
                \/ (pc' = "exited" /\ ~thread_running)
           /\ storage' = storage
           /\ m_records_written' <= m_records_written
           /\ m_bytes_output' <= m_bytes_output
           /\ m_records_written_tot' = m_records_written_tot
           /\ m_bytes_output_tot' = m_bytes_output_tot]_vars
  /\ [](outcome = "fatal" /\ ~InRecord => tracked)

C10_Witness ==
  /\ outcome = "fatal" /\ tracked
  /\ pc = "receive" /\ thread_running /\ m_running
  /\ storage = EmptyBag /\ m_records_written_tot = 0
  /\ Tracked(Events) = 1

\* C7: when the clamped minimum is at most the maximum and the factor at least
\* 1, the delays a record's retries sleep are: first the minimum, then each
\* time min(previous * factor, maximum), none above the maximum; every record
\* starts again from the minimum
C7_BackoffSequence ==
  (/\ m_min_write_retry_time_usec <= m_max_write_retry_time_usec
   /\ m_write_retry_time_increase_factor >= 1)
  => \A i \in 1..Len(sleeps) :
       /\ sleeps[i] <= m_max_write_retry_time_usec
       /\ i = 1 => sleeps[i] = m_min_write_retry_time_usec
       /\ i > 1 => sleeps[i] = Min(sleeps[i - 1] * m_write_retry_time_increase_factor,
                                   m_max_write_retry_time_usec)

C7_Witness ==
  /\ ordinal = 2 /\ sleeps = <<1, 2, 3>>
  /\ m_min_write_retry_time_usec = 1 /\ m_max_write_retry_time_usec = 3
  /\ m_write_retry_time_increase_factor = 2

\* C8: whatever minimum, maximum and factor do_conf was given, every delay the
\* write loop sleeps is at least 1
C8_NeverZeroDelay ==
  \A i \in 1..Len(sleeps) : sleeps[i] >= 1

\* C9: a record whose write fails retryably j times and then succeeds has had
\* write invoked j+1 times and j sleeps (for j = 2 within the cap they add up
\* to min + min * factor); the written counters then count one more record and
\* the bytes counters its size, so that they equal what the store holds
C9_RetriedThenWritten ==
  /\ (outcome = "ok" /\ InRecord) => write_calls = Len(sleeps) + 1
  /\ (/\ outcome = "ok" /\ Len(sleeps) = 2
      /\ m_min_write_retry_time_usec * m_write_retry_time_increase_factor
           <= m_max_write_retry_time_usec
      /\ m_write_retry_time_increase_factor >= 1)
     => sleeps[1] + sleeps[2] =
          m_min_write_retry_time_usec
          + m_min_write_retry_time_usec * m_write_retry_time_increase_factor
  /\ pc \notin {"written", "written_tot", "bytes", "bytes_tot"}
     => /\ m_records_written = Copies(BagToSet(storage), storage)
        /\ m_records_written_tot = Copies(BagToSet(storage), storage)
        /\ m_bytes_output = Bytes(BagToSet(storage), storage)
        /\ m_bytes_output_tot = Bytes(BagToSet(storage), storage)

C9_Witness ==
  /\ outcome = "ok" /\ pc = "retry_check" /\ m_running
  /\ write_calls = 3 /\ sleeps = <<1, 3>>
  /\ tr.size = 2 /\ ordinal = 2
  /\ m_records_written_tot = 2 /\ m_bytes_output_tot = 3

\* C11: do_conf returns normally, leaving the module configured, only if the
\* presence token (run 0, trigger 0) was delivered
C11_ConfiguredOnlyIfAnnounced ==
  (state = "configured" /\ nruns = 0) =>
    BagIn([token |-> Token(0, 0), nth |-> 0], sink)

\* C12: m_seqno_counts is empty right after do_start and whenever do_stop has
\* returned
C12_TableEmptyAfterStartAndStop ==
  /\ (pc = "while" /\ ordinal = 0) => m_seqno_counts = EmptyMap
  /\ (state = "configured" /\ ctl = "idle") => m_seqno_counts = EmptyMap

\* C15 as claimed: every entry of m_seqno_counts holds a count between 1 and
\* the event's max_sequence_number, and belongs to an event of which at least
\* one and fewer than max_sequence_number + 1 records were received in the
\* run; single-record events are complete at once and have no entry
C15_EntryOnlyWhileIncomplete ==
  /\ \A e \in DOMAIN m_seqno_counts :
       /\ 1 <= m_seqno_counts[e] /\ m_seqno_counts[e] <= MaxSeqOf(e)
       /\ 1 <= Len(verdicts[e]) /\ Len(verdicts[e]) < MaxSeqOf(e) + 1
  /\ \A e \in Events :
       MaxSeqOf(e) = 0 =>
         /\ e \notin DOMAIN m_seqno_counts
         /\ \A i \in 1..Len(verdicts[e]) : verdicts[e][i] = "Complete"

\* C15 as amended: every entry of m_seqno_counts holds a count between 1 and
\* the event's max_sequence_number; it is the number of records of the event
\* received in the run modulo max_sequence_number + 1, and there is no entry
\* when that is 0; single-record events are complete at once and have no entry
C15_EntryCountsModulo ==
  /\ \A e \in DOMAIN m_seqno_counts :
       /\ 1 <= m_seqno_counts[e] /\ m_seqno_counts[e] <= MaxSeqOf(e)
       /\ m_seqno_counts[e] = Len(verdicts[e]) % (MaxSeqOf(e) + 1)
  /\ \A e \in Events :
       /\ Len(verdicts[e]) % (MaxSeqOf(e) + 1) = 0 => e \notin DOMAIN m_seqno_counts
       /\ MaxSeqOf(e) = 0 =>
            /\ e \notin DOMAIN m_seqno_counts
            /\ \A i \in 1..Len(verdicts[e]) : verdicts[e][i] = "Complete"

C15_Witness ==
  /\ Len(verdicts[2]) = 3 /\ 2 \in DOMAIN m_seqno_counts
  /\ m_seqno_counts[2] = 1

\* C16: finish_with_run is invoked only after m_running was cleared and the
\* worker thread has ended; from then on nothing is written and no token of a
\* run is delivered; when finish_with_run fails, do_stop still returns with
\* the module stopped
RunTokens(bag) == {t \in BagToSet(bag) : t.token.run_number # 0}
C16_FinishAfterWorker ==
  [][/\ (finished = "no" /\ finished' # "no")
          => /\ ~m_running /\ ~thread_running /\ pc = "idle"
             /\ m_data_storage_is_enabled
             /\ state' = "configured" /\ ctl' = "idle"
     /\ (finished # "no" /\ finished' # "no")
          => /\ storage' = storage
             /\ \A t \in RunTokens(sink') : CopiesIn(t, sink') <= CopiesIn(t, sink)
             /\ m_records_written_tot' = m_records_written_tot]_vars

C16_Witness ==
  /\ finished = "failed" /\ state = "configured" /\ ctl = "idle"
  /\ storage # EmptyBag /\ RunTokens(sink) # {}

\* C20: a record whose write loop was left because m_running was cleared never
\* gets a token: the read of m_running at line 291 sees it cleared too, even
\* when the record completes its event
C20_NoTokenAfterAbandonedWrite ==
  /\ [](should_retry => pc \notin {"send", "sending", "send_check"})
  /\ [][(should_retry /\ pc = "tracker")
        => /\ sink' = sink /\ send_calls' = send_calls
           /\ pc' \in {"tracker", "while"}]_vars

C20_Witness ==
  /\ pc = "tracker" /\ should_retry /\ ~m_running
  /\ ctl = "flag_cleared" /\ thread_running
  /\ tr.max_sequence_number = 1 /\ tr.trigger_number \in DOMAIN m_seqno_counts

\* C13: when the worker thread of a new run is started, the received, written
\* and bytes counters and the cumulative write time m_writing_ms are all zero
C13_CountersZeroAtRunStart ==
  (pc = "while" /\ ordinal = 0 /\ m_running) =>
    /\ m_records_received = 0 /\ m_records_received_tot = 0
    /\ m_records_written = 0 /\ m_records_written_tot = 0
    /\ m_bytes_output = 0 /\ m_bytes_output_tot = 0
    /\ m_writing_ms = 0

\* C18: a do_start in which prepare_for_run fails (here: the starts for run 8)
\* leaves m_running false, the worker thread not started and the module not
\* running; it resets neither m_seqno_counts nor the counters, and until the
\* next do_start nothing is received, written or delivered
C18_FailedStartAborts ==
  /\ [](m_run_number = 8 =>
          /\ ~m_running /\ ~thread_running /\ pc = "idle"
          /\ state = "configured")
  /\ [][m_run_number' = 8 =>
          UNCHANGED <<m_seqno_counts, rcvvars, wrtvars, m_writing_ms,
                      storage, sink, ordinal, matched, state, pc,
                      m_running, thread_running>>]_vars

C18_Witness ==
  /\ m_run_number = 8 /\ m_data_storage_is_enabled
  /\ m_seqno_counts # EmptyMap
  /\ m_records_received_tot > 0 /\ m_records_written_tot > 0
  /\ storage # EmptyBag /\ nruns = 1

\* C14: every step of get_info leaves the three lifetime counters unchanged
\* and changes nothing of the module but the since-last-poll counter it
\* exchanges, which becomes zero; so m_seqno_counts is untouched and, polls or
\* not, the records handed to write are those whose position in the run is 1
\* modulo the prescale
C14_PollFrame ==
  /\ [][gi' # gi =>
          /\ UNCHANGED <<m_records_received_tot, m_records_written_tot,
                         m_bytes_output_tot, m_seqno_counts>>
          /\ UNCHANGED <<state, ctl, cfgvars, runvars, m_running,
                         thread_running, pc, tr, locvars, storage, sink>>
          /\ m_records_received' = (IF gi = 1 THEN 0 ELSE m_records_received)
          /\ m_records_written' = (IF gi = 3 THEN 0 ELSE m_records_written)
          /\ m_bytes_output' = (IF gi = 5 THEN 0 ELSE m_bytes_output)
          /\ m_writing_ms' = (IF gi = 6 THEN 0 ELSE m_writing_ms)]_vars
  /\ [](InWriteLoop =>
          (m_data_storage_prescale <= 1 \/ ordinal % m_data_storage_prescale = 1))
  /\ [](AfterWriteLoop /\ write_calls = 0 =>
          ~(m_data_storage_prescale <= 1 \/ ordinal % m_data_storage_prescale = 1))

C14_Witness ==
  /\ gi = 0 /\ npolls = 1
  /\ polled.received = 1 /\ polled.written = 1 /\ polled.bytes > 0
  /\ m_records_received = 1 /\ m_records_received_tot = 2
  /\ m_records_written = 0 /\ m_records_written_tot = 1
  /\ m_seqno_counts # EmptyMap
  /\ m_data_storage_prescale = 2 /\ pc = "tracker" /\ write_calls = 0

\* C19: when a get_info that began in the run hands its snapshot over, the
\* new_records_received of the run's polls so far add up to at most the
\* records_received of this snapshot, and likewise for the records written
\* and the bytes output
C19_SnapshotConsistent ==
  [][(gi = 7 /\ gi' = 0 /\ m_running /\ npolls >= 1) =>
       /\ polled'.received <= dwi.records_received
       /\ polled'.written <= dwi.records_written
       /\ polled'.bytes <= dwi.bytes_output]_vars

\* C17: under fair scheduling, once do_stop has cleared m_running the worker
\* thread ends and the join in stop_working_thread returns, even when from
\* then on every write fails retryably and every send fails
C17_StopTerminates ==
  (ctl = "flag_cleared") ~> (ctl = "finishing" /\ pc = "idle")

C17_Witness ==
  /\ ctl = "finishing" /\ pc = "idle" /\ ~m_running
  /\ outcome = "retryable" /\ ordinal = 1
  /\ storage = EmptyBag /\ RunTokens(sink) = {}
====
